---------------------------- MODULE Spec2Model ----------------------------
(***************************************************************************)
(* cloudrun-local: the run of the command line program (package main),     *)
(* the descriptor parser (package config), the credential broker (package  *)
(* auth), the Secret Manager client (package secrets) and the environment  *)
(* resolver (package env).                                                 *)
(*                                                                         *)
(* Go strings are sequences of byte values: "K_REVISION=local" is          *)
(* <<75, 95, ...>>, '=' is 61, '@' is 64, '.' is 46.  A nil pointer or a    *)
(* nil struct is the empty sequence and a non-nil one a sequence of one    *)
(* record.  An error is a record [op, arg, cause]; the nil error is Nil.   *)
(***************************************************************************)
EXTENDS Integers, Sequences, FiniteSets, TLC

VARIABLES
    pc,          \* position of run()
    file,        \* the descriptor document config.Parse read
    cfg,         \* *config.Config of run(): <<>> (nil) or <<Config>>
    creds,       \* *auth.Credentials of the resolver: <<>> (nil) or <<Credentials>>
    tmpFiles,    \* paths of the files that exist in os.TempDir()
    ctxDone,     \* the shared context of run() has been cancelled
    events,      \* credential lookups and network requests, in the order issued
    callerToken, \* access token of the caller's own standing credential
    issued,      \* access token the impersonation endpoint answered with: <<>> or <<token>>
    result,      \* Resolve's local slice `result`
    idx,         \* Resolve's loop position in config.EnvironmentVars (1-based)
    fetched,     \* the secret values AccessSecretVersion returned to Resolve
    envVars,     \* what Resolve returned to run()
    runErr,      \* the error run() returned to main(), Nil if none
    environ,     \* os.Environ() as run() read it
    childEnv,    \* cmd.Env of the child process
    stdout,      \* lines printed by run()
    exitCode,    \* exit status of the process, NotExited while it runs
    removed,     \* number of times os.Remove deleted the credential artifact
    cleanupErr,  \* what the last call of Resolver.Cleanup returned
    cleanupCalls,\* number of calls of Resolver.Cleanup so far
    call,        \* package-level call under test: its kind and input
    ret          \* what that call returned

vars == <<pc, file, cfg, creds, tmpFiles, ctxDone, events, callerToken, issued,
          result, idx, fetched, envVars, runErr, environ, childEnv, stdout, exitCode, removed,
          cleanupErr, cleanupCalls, call, ret>>

-----------------------------------------------------------------------------
(* Bounds of the model *)

\* most env entries of a container
MaxEnv == 2
\* most containers of a descriptor
MaxContainers == 2
\* longest serviceAccountName of the parser's exhaustive inputs
MaxIdLen == 5
\* longest secret payload, in bytes
MaxPayloadLen == 3
\* most calls of Resolver.Cleanup by one owner
MaxCleanupCalls == 3

-----------------------------------------------------------------------------
(* Strings *)

RECURSIVE Split(_, _)
\* strings.Split(s, sep) for a one-byte separator: always at least one part
Split(s, sep) ==
    IF \A k \in 1..Len(s) : s[k] # sep
    THEN <<s>>
    ELSE LET k == CHOOSE j \in 1..Len(s) :
                      s[j] = sep /\ \A h \in 1..(j - 1) : s[h] # sep
         IN  <<SubSeq(s, 1, k - 1)>> \o Split(SubSeq(s, k + 1, Len(s)), sep)

RECURSIVE Strings(_, _)
\* all strings over alphabet A of length at most n
Strings(A, n) ==
    IF n = 0 THEN {<<>>}
    ELSE LET S == Strings(A, n - 1)
         IN  S \cup {Append(s, a) : s \in {t \in S : Len(t) = n - 1}, a \in A}

RECURSIVE SeqsUpTo(_, _)
\* all sequences over the set S of length at most n
SeqsUpTo(S, n) ==
    IF n = 0 THEN {<<>>}
    ELSE LET P == SeqsUpTo(S, n - 1)
         IN  P \cup {Append(s, a) : s \in {t \in P : Len(t) = n - 1}, a \in S}

-----------------------------------------------------------------------------
(* Errors *)

Nil == [op |-> "nil"]
Err(op, arg) == [op |-> op, arg |-> arg, cause |-> Nil]
\* fmt.Errorf("<op> <arg>: %w", cause)
Wrap(op, arg, cause) == [op |-> op, arg |-> arg, cause |-> cause]

-----------------------------------------------------------------------------
(* package config *)

Config(name, account, project, envs) ==
    [ServiceName |-> name, ServiceAccount |-> account,
     ProjectID |-> project, EnvironmentVars |-> envs]

EnvVar(name, value, ref) == [Name |-> name, Value |-> value, SecretRef |-> ref]

SecretRef(name, key) == [Name |-> name, Key |-> key]

\* extractProjectID taking what follows the first '@', however many there are
extractProjectIDNoCount(serviceAccount) ==
    LET parts == Split(serviceAccount, 64)
    IN  IF Len(parts) < 2
        THEN [val |-> <<>>, err |-> Err("invalid service account format", serviceAccount)]
        ELSE LET domainParts == Split(parts[2], 46)
                 projectID == domainParts[1]
             IN  IF projectID = <<>>
                 THEN [val |-> <<>>,
                       err |-> Err("could not extract project ID from service account",
                                   serviceAccount)]
                 ELSE [val |-> projectID, err |-> Nil]

extractProjectID(serviceAccount) ==
    LET parts == Split(serviceAccount, 64)
    IN  IF Len(parts) # 2
        THEN [val |-> <<>>, err |-> Err("invalid service account format", serviceAccount)]
        ELSE LET domainParts == Split(parts[2], 46)
             IN  IF Len(domainParts) < 1
                 THEN [val |-> <<>>,
                       err |-> Err("invalid service account domain", parts[2])]
                 ELSE LET projectID == domainParts[1]
                      IN  IF projectID = <<>>
                          THEN [val |-> <<>>,
                                err |-> Err("could not extract project ID from service account",
                                            serviceAccount)]
                          ELSE [val |-> projectID, err |-> Nil]

\* parseEnvVar with the two branches in the other order
parseEnvVarSecretFirst(env) ==
    IF env.refName # <<>> /\ env.refKey # <<>>
    THEN EnvVar(env.name, <<>>, <<SecretRef(env.refName, env.refKey)>>)
    ELSE EnvVar(env.name, env.value, <<>>)

\* parseEnvVar taking a secretKeyRef with a name for a reference, key or no key
parseEnvVarNameOnly(env) ==
    IF env.value # <<>>
    THEN EnvVar(env.name, env.value, <<>>)
    ELSE IF env.refName # <<>>
         THEN EnvVar(env.name, <<>>, <<SecretRef(env.refName, env.refKey)>>)
         ELSE EnvVar(env.name, <<>>, <<>>)

\* the body of parseEnvVars' loop: one entry of the container's env array
parseEnvVar(env) ==
    IF env.value # <<>>
    THEN EnvVar(env.name, env.value, <<>>)
    ELSE IF env.refName # <<>> /\ env.refKey # <<>>
         THEN EnvVar(env.name, <<>>, <<SecretRef(env.refName, env.refKey)>>)
         ELSE EnvVar(env.name, <<>>, <<>>)

parseEnvVars(envArray) == [k \in 1..Len(envArray) |-> parseEnvVar(envArray[k])]

\* what parseService and parseJob do once the typed document is unmarshalled;
\* the two read the same fields at different depths of the document
parseSpec(name, podSpec) ==
    IF Len(podSpec.containers) # 1
    THEN [cfg |-> <<>>,
          err |-> Err("expected exactly 1 container, got", <<Len(podSpec.containers)>>)]
    ELSE IF podSpec.serviceAccountName = <<>>
         THEN [cfg |-> <<>>, err |-> Err("serviceAccountName not found in config", <<>>)]
         ELSE LET p == extractProjectID(podSpec.serviceAccountName)
              IN  IF p.err # Nil
                  THEN [cfg |-> <<>>, err |-> Wrap("extract project ID", <<>>, p.err)]
                  ELSE [cfg |-> <<Config(name, podSpec.serviceAccountName, p.val,
                                         parseEnvVars(podSpec.containers[1].env))>>,
                        err |-> Nil]

parseService(doc) == parseSpec(doc.name, doc.spec)

\* parseJob reading the first container of however many there are
parseJobAtLeastOne(doc) ==
    IF Len(doc.spec.containers) < 1
    THEN [cfg |-> <<>>, err |-> Err("expected exactly 1 container, got", <<0>>)]
    ELSE parseSpec(doc.name, [doc.spec EXCEPT !.containers = <<doc.spec.containers[1]>>])

parseJob(doc) == parseSpec(doc.name, doc.spec)

Parse(doc) ==
    IF ~doc.readable
    THEN [cfg |-> <<>>, err |-> Wrap("read config file", <<>>, Err("open", <<>>))]
    ELSE IF doc.kind = "Service" THEN parseService(doc)
    ELSE IF doc.kind = "Job" THEN parseJob(doc)
    ELSE [cfg |-> <<>>, err |-> Err("unsupported kind", <<>>)]

-----------------------------------------------------------------------------
(* package auth *)

Credentials(accessToken, credsFile) ==
    [AccessToken |-> accessToken, CredsFile |-> credsFile]

\* the generateAccessToken request fetchImpersonatedAccessToken issues
ImpersonationRequest(accessToken, serviceAccountEmail) ==
    [kind |-> "impersonate", bearer |-> accessToken,
     path |-> <<serviceAccountEmail>>, decl |-> 0]

\* ImpersonatedToken returning the local accessToken, not tokens.AccessToken
ImpersonatedTokenOfCaller(accessToken, resp) ==
    IF resp.neterr THEN [val |-> <<>>, err |-> Err("http", <<>>)]
    ELSE IF resp.status # 200
         THEN [val |-> <<>>, err |-> Err("failed to generate access token", <<resp.status>>)]
    ELSE IF ~resp.jsonOk THEN [val |-> <<>>, err |-> Err("json", <<>>)]
    ELSE [val |-> accessToken, err |-> Nil]

\* fetchImpersonatedAccessToken from the answer of the endpoint on;
\* accessToken is the caller's own token, which authorized the request
ImpersonatedToken(accessToken, resp) ==
    IF resp.neterr THEN [val |-> <<>>, err |-> Err("http", <<>>)]
    ELSE IF resp.status # 200
         THEN [val |-> <<>>, err |-> Err("failed to generate access token", <<resp.status>>)]
    ELSE IF ~resp.jsonOk THEN [val |-> <<>>, err |-> Err("json", <<>>)]
    ELSE [val |-> resp.accessToken, err |-> Nil]

\* os.TempDir()
TempDir == <<47, 116, 109, 112>>

\* filepath.Join(tempDir, "cloudrun-local-creds-" + randomLower(8) + ".json")
CredsPath(rand) ==
    TempDir \o <<47, 99, 108, 111, 117, 100, 114, 117, 110, 45, 108, 111, 99, 97, 108,
                 45, 99, 114, 101, 100, 115, 45>> \o rand \o <<46, 106, 115, 111, 110>>

\* GetImpersonatedCredentials writing the artifact before it looks at the
\* outcome of the token fetch
FinishCredentialsWriteFirst(tok, path, written, files) ==
    IF ~written
    THEN [creds |-> <<>>, files |-> files,
          err |-> Wrap("create credentials file", <<>>, Err("write", <<>>))]
    ELSE IF tok.err # Nil
         THEN [creds |-> <<>>, files |-> files \cup {path},
               err |-> Wrap("fetch impersonated access token", <<>>, tok.err)]
         ELSE [creds |-> <<Credentials(tok.val, path)>>, files |-> files \cup {path},
               err |-> Nil]

\* GetImpersonatedCredentials once fetchImpersonatedAccessToken has returned
\* tok: on an error it returns, else createDelegatedCredsFile writes path (or
\* fails to) and the Credentials are built
FinishCredentials(tok, path, written, files) ==
    IF tok.err # Nil
    THEN [creds |-> <<>>, files |-> files,
          err |-> Wrap("fetch impersonated access token", <<>>, tok.err)]
    ELSE IF ~written
         THEN [creds |-> <<>>, files |-> files,
               err |-> Wrap("create credentials file", <<>>, Err("write", <<>>))]
         ELSE [creds |-> <<Credentials(tok.val, path)>>, files |-> files \cup {path},
               err |-> Nil]

\* Credentials.Cleanup; os.Remove deletes the file if it is there and
\* fails if it is not
CredentialsCleanup(c, files) ==
    IF c.CredsFile = <<>>
    THEN [err |-> Nil, files |-> files]
    ELSE IF c.CredsFile \in files
         THEN [err |-> Nil, files |-> files \ {c.CredsFile}]
         ELSE [err |-> Err("remove: no such file or directory", c.CredsFile),
               files |-> files]

-----------------------------------------------------------------------------
(* package secrets *)

NewClient(accessToken, projectID) ==
    [accessToken |-> accessToken, projectID |-> projectID]

\* SecretRequest with the secret's name and version in each other's place
SecretRequestSwapped(c, secretName, version, decl) ==
    [kind |-> "secret", bearer |-> c.accessToken,
     path |-> <<c.projectID, version, secretName>>, decl |-> decl]

\* the GET request AccessSecretVersion issues; decl is the position of the
\* declaration it is issued for (0 when the caller is not Resolve)
SecretRequest(c, secretName, version, decl) ==
    [kind |-> "secret", bearer |-> c.accessToken,
     path |-> <<c.projectID, secretName, version>>, decl |-> decl]

\* the 6-bit value of a character of the standard base64 alphabet, -1 if none
Sextet(ch) ==
    IF ch >= 65 /\ ch <= 90 THEN ch - 65
    ELSE IF ch >= 97 /\ ch <= 122 THEN ch - 71
    ELSE IF ch >= 48 /\ ch <= 57 THEN ch + 4
    ELSE IF ch = 43 THEN 62
    ELSE IF ch = 47 THEN 63
    ELSE -1

\* one quantum of four characters; padding is accepted in the last one only
DecodeQuantum(q, last) ==
    LET a == Sextet(q[1])
        b == Sextet(q[2])
        c == Sextet(q[3])
        d == Sextet(q[4])
    IN  IF a < 0 \/ b < 0 THEN [ok |-> FALSE, bytes |-> <<>>]
        ELSE IF c >= 0 /\ d >= 0
             THEN [ok |-> TRUE,
                   bytes |-> <<a * 4 + (b \div 16), (b % 16) * 16 + (c \div 4),
                               (c % 4) * 64 + d>>]
        ELSE IF last /\ c >= 0 /\ q[4] = 61
             THEN [ok |-> TRUE, bytes |-> <<a * 4 + (b \div 16), (b % 16) * 16 + (c \div 4)>>]
        ELSE IF last /\ q[3] = 61 /\ q[4] = 61
             THEN [ok |-> TRUE, bytes |-> <<a * 4 + (b \div 16)>>]
        ELSE [ok |-> FALSE, bytes |-> <<>>]

RECURSIVE DecodeString(_)
\* base64.StdEncoding.DecodeString
DecodeString(s) ==
    IF s = <<>> THEN [ok |-> TRUE, bytes |-> <<>>]
    ELSE IF Len(s) < 4 THEN [ok |-> FALSE, bytes |-> <<>>]
    ELSE LET q == DecodeQuantum(SubSeq(s, 1, 4), Len(s) = 4)
             rest == DecodeString(SubSeq(s, 5, Len(s)))
         IN  IF q.ok /\ rest.ok
             THEN [ok |-> TRUE, bytes |-> q.bytes \o rest.bytes]
             ELSE [ok |-> FALSE, bytes |-> <<>>]

\* AccessSecretVersion returning payload.data as it came
AccessSecretVersionRaw(c, secretName, version, resp) ==
    IF resp.neterr THEN [val |-> <<>>, err |-> Err("http", <<>>)]
    ELSE IF resp.status < 200 \/ resp.status > 299
         THEN [val |-> <<>>,
               err |-> Err("expected 200 response status, received", <<resp.status>>)]
    ELSE IF ~resp.jsonOk THEN [val |-> <<>>, err |-> Err("json", <<>>)]
    ELSE [val |-> resp.data, err |-> Nil]

\* Client.AccessSecretVersion from the answer of the endpoint on
AccessSecretVersion(c, secretName, version, resp) ==
    IF resp.neterr THEN [val |-> <<>>, err |-> Err("http", <<>>)]
    ELSE IF resp.status < 200 \/ resp.status > 299
         THEN [val |-> <<>>,
               err |-> Err("expected 200 response status, received", <<resp.status>>)]
    ELSE IF ~resp.jsonOk THEN [val |-> <<>>, err |-> Err("json", <<>>)]
    ELSE IF resp.data = <<>>
         THEN [val |-> <<>>,
               err |-> Err("no value for secret", <<c.projectID, secretName, version>>)]
    ELSE LET decoded == DecodeString(resp.data)
         IN  IF ~decoded.ok THEN [val |-> <<>>, err |-> Err("base64", <<>>)]
             ELSE [val |-> decoded.bytes, err |-> Nil]

-----------------------------------------------------------------------------
(* package env *)

\* AutomaticVars with GOOGLE_CLOUD_PROJECT ahead of K_REVISION
AutomaticVarsProjectFirst(config, c) ==
    (IF config.ServiceName # <<>>
     THEN <<<<75, 95, 83, 69, 82, 86, 73, 67, 69, 61>> \o config.ServiceName>>
     ELSE <<>>)
    \o <<<<71, 79, 79, 71, 76, 69, 95, 67, 76, 79, 85, 68, 95, 80, 82, 79, 74, 69, 67,
           84, 61>> \o config.ProjectID,
         <<75, 95, 82, 69, 86, 73, 83, 73, 79, 78, 61, 108, 111, 99, 97, 108>>,
         <<71, 79, 79, 71, 76, 69, 95, 65, 80, 80, 76, 73, 67, 65, 84, 73, 79, 78, 95,
           67, 82, 69, 68, 69, 78, 84, 73, 65, 76, 83, 61>> \o c.CredsFile>>

\* Resolve, the Cloud Run metadata variables: K_SERVICE=, K_REVISION=local,
\* GOOGLE_CLOUD_PROJECT=, GOOGLE_APPLICATION_CREDENTIALS=
AutomaticVars(config, c) ==
    (IF config.ServiceName # <<>>
     THEN <<<<75, 95, 83, 69, 82, 86, 73, 67, 69, 61>> \o config.ServiceName>>
     ELSE <<>>)
    \o <<<<75, 95, 82, 69, 86, 73, 83, 73, 79, 78, 61, 108, 111, 99, 97, 108>>,
         <<71, 79, 79, 71, 76, 69, 95, 67, 76, 79, 85, 68, 95, 80, 82, 79, 74, 69, 67,
           84, 61>> \o config.ProjectID,
         <<71, 79, 79, 71, 76, 69, 95, 65, 80, 80, 76, 73, 67, 65, 84, 73, 79, 78, 95,
           67, 82, 69, 68, 69, 78, 84, 73, 65, 76, 83, 61>> \o c.CredsFile>>

\* envVar.Name + "=" + value
Entry(name, value) == name \o <<61>> \o value

\* ResolveFailed returning the entries gathered so far
ResolveFailedPartial(res, secretName, err) ==
    [vars |-> res, err |-> Wrap("access secret", secretName, err)]

\* Resolve's return when a secret fetch failed: nil and the wrapped error
ResolveFailed(res, secretName, err) ==
    [vars |-> <<>>, err |-> Wrap("access secret", secretName, err)]

\* Resolver.Cleanup
ResolverCleanup(c, files) ==
    IF c # <<>> THEN CredentialsCleanup(c[1], files)
    ELSE [err |-> Nil, files |-> files]

-----------------------------------------------------------------------------
(* Inputs: descriptor documents, answers of the endpoints, the shell *)

RawEnv(name, value, refName, refKey) ==
    [name |-> name, value |-> value, refName |-> refName, refKey |-> refKey]

\* FOO and K_REVISION; "a=b"; secretKeyRef absent, without key, without
\* name, complete
RawEnvEntries ==
    {RawEnv(n, v, r[1], r[2]) :
        n \in {<<70, 79, 79>>, <<75, 95, 82, 69, 86, 73, 83, 73, 79, 78>>},
        v \in {<<>>, <<97, 61, 98>>},
        r \in {<<<<>>, <<>>>>, <<<<115>>, <<>>>>,
               <<<<>>, <<108, 97, 116, 101, 115, 116>>>>,
               <<<<115>>, <<108, 97, 116, 101, 115, 116>>>>}}

EnvArrays == SeqsUpTo(RawEnvEntries, MaxEnv)

\* the decoded document: metadata.name and the pod spec of either shape
Doc(kind, name, account, containers, readable) ==
    [kind |-> kind, name |-> name, readable |-> readable,
     spec |-> [serviceAccountName |-> account, containers |-> containers]]

\* n containers, the first with the env array e
Containers(n, e) == [k \in 1..n |-> [env |-> IF k = 1 THEN e ELSE <<>>]]

ServiceNames == {<<>>, <<115, 118, 99>>}

\* sa@proj.iam
GoodAccount == <<115, 97, 64, 112, 114, 111, 106, 46, 105, 97, 109>>

NoDoc == Doc("", <<>>, <<>>, <<>>, FALSE)

Descriptors ==
    {Doc("Service", n, GoodAccount, Containers(1, e), TRUE) :
        n \in ServiceNames, e \in EnvArrays}
    \cup {Doc("Job", <<115, 118, 99>>, GoodAccount, Containers(1, e), TRUE) :
        e \in {a \in EnvArrays : Len(a) <= 1}}
    \cup {Doc(k, <<115, 118, 99>>, a, Containers(c, <<>>), TRUE) :
        k \in {"Service", "Job", "CronJob"},
        a \in {<<>>, GoodAccount, <<115, 97>>, <<115, 64, 112, 64, 113>>},
        c \in 0..MaxContainers}
    \cup {NoDoc}

\* every serviceAccountName over 's', '@', '.' up to MaxIdLen
IdentityDescriptors ==
    {Doc(k, <<>>, a, Containers(1, <<>>), TRUE) :
        k \in {"Service", "Job"}, a \in Strings({115, 64, 46}, MaxIdLen)}

NetErr == [neterr |-> TRUE, status |-> 0, jsonOk |-> FALSE,
           accessToken |-> <<>>, data |-> <<>>]

HttpAnswer(status, jsonOk, accessToken, data) ==
    [neterr |-> FALSE, status |-> status, jsonOk |-> jsonOk,
     accessToken |-> accessToken, data |-> data]

\* "c"
CallerTokens == {<<99>>}

\* "i", "j"
ImpersonatedTokens == {<<105>>, <<106>>}

ImpersonationAnswers ==
    {NetErr, HttpAnswer(403, TRUE, <<>>, <<>>), HttpAnswer(200, FALSE, <<>>, <<>>)}
    \cup {HttpAnswer(200, TRUE, t, <<>>) : t \in ImpersonatedTokens}

\* "cXV4" (qux), "dg==" (v), no payload, 403
SecretAnswers ==
    {NetErr, HttpAnswer(403, TRUE, <<>>, <<>>), HttpAnswer(200, TRUE, <<>>, <<>>),
     HttpAnswer(200, TRUE, <<>>, <<99, 88, 86, 52>>),
     HttpAnswer(200, TRUE, <<>>, <<100, 103, 61, 61>>)}

\* randomLower(8): "abcdefgh"
RandomSuffixes == {<<97, 98, 99, 100, 101, 102, 103, 104>>}

\* os.Environ(): empty, FOO=sh, K_REVISION=sh and FOO=
ShellEnvs ==
    {<<>>, <<<<70, 79, 79, 61, 115, 104>>>>,
     <<<<75, 95, 82, 69, 86, 73, 83, 73, 79, 78, 61, 115, 104>>, <<70, 79, 79, 61>>>>}

-----------------------------------------------------------------------------
(* package main: run() *)

Init ==
    /\ pc = "start"
    /\ file = NoDoc
    /\ cfg = <<>>
    /\ creds = <<>>
    /\ tmpFiles = {}
    /\ ctxDone = FALSE
    /\ events = <<>>
    /\ callerToken = <<>>
    /\ issued = <<>>
    /\ result = <<>>
    /\ idx = 0
    /\ fetched = <<>>
    /\ envVars = <<>>
    /\ runErr = Nil
    /\ environ = <<>>
    /\ childEnv = <<>>
    /\ stdout = <<>>
    /\ exitCode = <<>>
    /\ removed = 0
    /\ cleanupErr = Nil
    /\ cleanupCalls = 0
    /\ call = [kind |-> "none"]
    /\ ret = [val |-> <<>>, err |-> Nil]

cleanupVars == <<tmpFiles, removed, cleanupErr, cleanupCalls>>
credVars == <<creds, callerToken, issued>>
resolveVars == <<result, idx, fetched, envVars>>
childVars == <<environ, childEnv, stdout>>
harnessVars == <<call, ret>>

Goto(p) == pc' = p /\ UNCHANGED <<runErr, exitCode>>

\* run() returns err before the deferred Cleanup is registered; main() exits
ReturnEarly(err) ==
    /\ pc' = "exited"
    /\ runErr' = err
    /\ exitCode' = <<1>>

\* the deferred call of resolver.Cleanup
DeferredCleanup ==
    LET c == ResolverCleanup(creds, tmpFiles)
    IN  /\ tmpFiles' = c.files
        /\ removed' = removed + (IF c.files # tmpFiles THEN 1 ELSE 0)
        /\ cleanupErr' = c.err
        /\ cleanupCalls' = cleanupCalls + 1

\* ChildEnvironment with the two lists in the other order
ChildEnvironmentShellFirst(resolved, shell) == shell \o resolved

\* cmd.Env = append(envVars, os.Environ()...)
ChildEnvironment(resolved, shell) == resolved \o shell

\* Return with no deferred call run, as if the process were ended by os.Exit
ReturnWithoutCleanup(err) ==
    /\ pc' = "exited"
    /\ runErr' = err
    /\ exitCode' = <<IF err = Nil THEN 0 ELSE 1>>
    /\ UNCHANGED cleanupVars

\* run() returns err with the deferred Cleanup registered: the deferred call
\* runs, then main() exits with 1 on an error and 0 otherwise
Return(err) ==
    /\ DeferredCleanup
    /\ pc' = "exited"
    /\ runErr' = err
    /\ exitCode' = <<IF err = Nil THEN 0 ELSE 1>>

\* os.Exit(code) inside run(): the process ends at once, deferred calls do not run
OsExit(code) ==
    /\ pc' = "exited"
    /\ exitCode' = <<code>>
    /\ UNCHANGED <<runErr, cleanupVars>>

NewResolverFailed(err) ==
    ReturnEarly(Wrap("create env resolver", <<>>,
                     Wrap("get impersonated credentials", <<>>, err)))

\* config.Parse of a document drawn from D
ParseFrom(D) ==
    /\ pc = "start"
    /\ \E doc \in D :
          LET r == Parse(doc)
          IN  /\ file' = doc
              /\ cfg' = r.cfg
              /\ IF r.err = Nil
                 THEN Goto("readADC")
                 ELSE ReturnEarly(Wrap("parse config", <<>>, r.err))
    /\ UNCHANGED <<ctxDone, events, credVars, resolveVars, childVars, cleanupVars,
                   harnessVars>>

ParseConfig == ParseFrom(Descriptors)

\* GetImpersonatedCredentials: applicationDefaultCredentials reads the local file
ReadADC ==
    /\ pc = "readADC"
    /\ \E found \in {"ok", "missing", "unreadable"} :
          IF found = "ok"
          THEN Goto("findDefault")
          ELSE IF found = "missing"
               THEN NewResolverFailed(Err("no application default credentials found", <<>>))
               ELSE NewResolverFailed(Err("read application default credentials", <<>>))
    /\ events' = Append(events, [kind |-> "adc", bearer |-> <<>>, path |-> <<>>, decl |-> 0])
    /\ UNCHANGED <<file, cfg, ctxDone, credVars, resolveVars, childVars, cleanupVars,
                   harnessVars>>

\* fetchImpersonatedAccessToken: google.FindDefaultCredentials and TokenSource.Token
FindDefault ==
    /\ pc = "findDefault"
    /\ \E tok \in [ok : BOOLEAN, token : CallerTokens \cup {<<>>}] :
          IF ~tok.ok
          THEN /\ NewResolverFailed(Wrap("fetch impersonated access token", <<>>,
                                         Err("get access token", <<>>)))
               /\ UNCHANGED callerToken
          ELSE IF tok.token = <<>>
               THEN /\ NewResolverFailed(Wrap("fetch impersonated access token", <<>>,
                                              Err("got empty access token", <<>>)))
                    /\ UNCHANGED callerToken
               ELSE /\ callerToken' = tok.token
                    /\ Goto("impersonate")
    /\ events' = Append(events, [kind |-> "token", bearer |-> <<>>, path |-> <<>>, decl |-> 0])
    /\ UNCHANGED <<file, cfg, ctxDone, creds, issued, resolveVars, childVars, cleanupVars,
                   harnessVars>>

\* fetchImpersonatedAccessToken: http.DefaultClient.Do sends the request,
\* unless the context is already cancelled
ImpersonateSend ==
    /\ pc = "impersonate"
    /\ IF ctxDone
       THEN /\ NewResolverFailed(Wrap("fetch impersonated access token", <<>>,
                                      Err("http", <<>>)))
            /\ UNCHANGED events
       ELSE /\ events' = Append(events,
                                ImpersonationRequest(callerToken, cfg[1].ServiceAccount))
            /\ Goto("impersonateWait")
    /\ UNCHANGED <<file, cfg, ctxDone, credVars, resolveVars, childVars, cleanupVars,
                   harnessVars>>

\* the answer arrives; then createDelegatedCredsFile writes the artifact and
\* NewResolver returns the resolver
ImpersonateRecv ==
    /\ pc = "impersonateWait"
    /\ \E resp \in (IF ctxDone THEN {NetErr} ELSE ImpersonationAnswers),
          rand \in RandomSuffixes, written \in BOOLEAN :
          LET tok == ImpersonatedToken(callerToken, resp)
          IN  /\ issued' = IF ~resp.neterr /\ resp.status = 200 /\ resp.jsonOk
                           THEN <<resp.accessToken>> ELSE issued
              /\ LET got == FinishCredentials(tok, CredsPath(rand), written, tmpFiles)
                 IN  /\ tmpFiles' = got.files
                     /\ creds' = got.creds
                     /\ IF got.err # Nil
                        THEN NewResolverFailed(got.err)
                        ELSE Goto("constructed")
    /\ UNCHANGED <<file, cfg, ctxDone, events, callerToken, resolveVars, childVars,
                   removed, cleanupErr, cleanupCalls, harnessVars>>

\* Resolve: the automatic variables
ResolveBegin ==
    /\ pc = "constructed"
    /\ result' = AutomaticVars(cfg[1], creds[1])
    /\ idx' = 1
    /\ Goto("resolve")
    /\ UNCHANGED <<file, cfg, ctxDone, events, credVars, fetched, envVars, childVars,
                   cleanupVars, harnessVars>>

\* Resolve's error return, run()'s wrapping of it, the deferred Cleanup, exit
ResolveReturnsError(out) ==
    /\ envVars' = out.vars
    /\ Return(Wrap("resolve environment", <<>>, out.err))

\* Resolve: one turn of the loop over config.EnvironmentVars, up to the
\* sending of the secret request, or the return after the last declaration
ResolveNext ==
    /\ pc = "resolve"
    /\ IF idx > Len(cfg[1].EnvironmentVars)
       THEN /\ envVars' = result
            /\ Goto("resolved")
            /\ UNCHANGED <<result, idx, events, cleanupVars>>
       ELSE LET envVar == cfg[1].EnvironmentVars[idx]
                client == NewClient(creds[1].AccessToken, cfg[1].ProjectID)
            IN  IF envVar.Value # <<>>
                THEN /\ result' = Append(result, Entry(envVar.Name, envVar.Value))
                     /\ idx' = idx + 1
                     /\ Goto("resolve")
                     /\ UNCHANGED <<envVars, events, cleanupVars>>
                ELSE IF envVar.SecretRef # <<>>
                     THEN IF ctxDone
                          THEN /\ ResolveReturnsError(
                                      ResolveFailed(result, envVar.SecretRef[1].Name,
                                                    Err("http", <<>>)))
                               /\ UNCHANGED <<result, idx, events>>
                          ELSE /\ events' = Append(events,
                                      SecretRequest(client, envVar.SecretRef[1].Name,
                                                    envVar.SecretRef[1].Key, idx))
                               /\ Goto("secretWait")
                               /\ UNCHANGED <<result, idx, envVars, cleanupVars>>
                     ELSE /\ idx' = idx + 1
                          /\ Goto("resolve")
                          /\ UNCHANGED <<result, envVars, events, cleanupVars>>
    /\ UNCHANGED <<file, cfg, ctxDone, credVars, fetched, childVars, harnessVars>>

\* Resolve: the secret endpoint answers, or the cancelled context ends the call
SecretRecv ==
    /\ pc = "secretWait"
    /\ \E resp \in (IF ctxDone THEN {NetErr} ELSE SecretAnswers) :
          LET envVar == cfg[1].EnvironmentVars[idx]
              client == NewClient(creds[1].AccessToken, cfg[1].ProjectID)
              got == AccessSecretVersion(client, envVar.SecretRef[1].Name,
                                         envVar.SecretRef[1].Key, resp)
          IN  IF got.err # Nil
              THEN /\ ResolveReturnsError(
                          ResolveFailed(result, envVar.SecretRef[1].Name, got.err))
                   /\ UNCHANGED <<result, idx, fetched>>
              ELSE /\ result' = Append(result, Entry(envVar.Name, got.val))
                   /\ fetched' = Append(fetched, [decl |-> idx, val |-> got.val])
                   /\ idx' = idx + 1
                   /\ Goto("resolve")
                   /\ UNCHANGED <<envVars, cleanupVars>>
    /\ UNCHANGED <<file, cfg, ctxDone, events, credVars, childVars, harnessVars>>

\* no command was given: the variables are printed and run() returns nil
PrintEnv ==
    /\ pc = "resolved"
    /\ stdout' = envVars
    /\ Return(Nil)
    /\ UNCHANGED <<file, cfg, ctxDone, events, credVars, resolveVars, environ, childEnv,
                   harnessVars>>

\* a command was given: cmd.Env is built and cmd.Run starts the child, which
\* fails if the command cannot be started or the context is already cancelled
StartChild ==
    /\ pc = "resolved"
    /\ \E shell \in ShellEnvs, started \in BOOLEAN :
          /\ environ' = shell
          /\ childEnv' = ChildEnvironment(envVars, shell)
          /\ IF ctxDone \/ ~started
             THEN Return(Wrap("execute command", <<>>, Err("start", <<>>)))
             ELSE Goto("child") /\ UNCHANGED cleanupVars
    /\ UNCHANGED <<file, cfg, ctxDone, events, credVars, resolveVars, stdout, harnessVars>>

\* the child exits by itself: status 0 returns nil, any other status is an
\* *exec.ExitError and run() calls os.Exit with it
ChildExit ==
    /\ pc = "child"
    /\ \E code \in {0, 1} :
          IF code = 0 THEN Return(Nil) ELSE OsExit(code)
    /\ UNCHANGED <<file, cfg, ctxDone, events, credVars, resolveVars, childVars, harnessVars>>

\* exec.CommandContext kills the child once the context is cancelled; Run
\* returns an *exec.ExitError whose ExitCode() is -1
ChildKilled ==
    /\ pc = "child"
    /\ ctxDone
    /\ OsExit(-1)
    /\ UNCHANGED <<file, cfg, ctxDone, events, credVars, resolveVars, childVars, harnessVars>>

\* an interrupt or SIGTERM arrives: the signal goroutine cancels the context
Signal ==
    /\ pc # "exited"
    /\ ~ctxDone
    /\ ctxDone' = TRUE
    /\ UNCHANGED <<pc, runErr, exitCode, file, cfg, events, credVars, resolveVars,
                   childVars, cleanupVars, harnessVars>>

Next ==
    \/ ParseConfig
    \/ ReadADC
    \/ FindDefault
    \/ ImpersonateSend
    \/ ImpersonateRecv
    \/ ResolveBegin
    \/ ResolveNext
    \/ SecretRecv
    \/ PrintEnv
    \/ StartChild
    \/ ChildExit
    \/ ChildKilled
    \/ Signal

Spec == Init /\ [][Next]_vars

-----------------------------------------------------------------------------
(* Package-level behaviours: an owner of a Resolver other than run(), and   *)
(* direct calls of config.Parse and Client.AccessSecretVersion              *)

\* the owner of a constructed Resolver calls Cleanup (again)
OwnerCleanup ==
    /\ pc = "constructed"
    /\ cleanupCalls < MaxCleanupCalls
    /\ DeferredCleanup
    /\ UNCHANGED <<pc, runErr, exitCode, file, cfg, ctxDone, events, credVars,
                   resolveVars, childVars, harnessVars>>

NextApi ==
    \/ ParseConfig
    \/ ReadADC
    \/ FindDefault
    \/ ImpersonateSend
    \/ ImpersonateRecv
    \/ OwnerCleanup

\* NewResolver, then any number of Cleanup calls
SpecApi == Init /\ [][NextApi]_vars

ParseIdentities == ParseFrom(IdentityDescriptors)

\* config.Parse over every short serviceAccountName
SpecParse == Init /\ [][ParseIdentities]_vars

PayloadBytes == {0, 113, 255}

Payloads == Strings(PayloadBytes, MaxPayloadLen)

Base64Alphabet ==
    <<65, 66, 67, 68, 69, 70, 71, 72, 73, 74, 75, 76, 77, 78, 79, 80, 81, 82, 83, 84,
      85, 86, 87, 88, 89, 90, 97, 98, 99, 100, 101, 102, 103, 104, 105, 106, 107, 108,
      109, 110, 111, 112, 113, 114, 115, 116, 117, 118, 119, 120, 121, 122, 48, 49, 50,
      51, 52, 53, 54, 55, 56, 57, 43, 47>>

RECURSIVE Base64Encode(_)
\* RFC 4648 base64 with padding, as the endpoint encodes payload.data
Base64Encode(B) ==
    IF B = <<>> THEN <<>>
    ELSE IF Len(B) = 1
         THEN <<Base64Alphabet[(B[1] \div 4) + 1], Base64Alphabet[(B[1] % 4) * 16 + 1],
                61, 61>>
    ELSE IF Len(B) = 2
         THEN <<Base64Alphabet[(B[1] \div 4) + 1],
                Base64Alphabet[(B[1] % 4) * 16 + (B[2] \div 16) + 1],
                Base64Alphabet[(B[2] % 16) * 4 + 1], 61>>
    ELSE <<Base64Alphabet[(B[1] \div 4) + 1],
           Base64Alphabet[(B[1] % 4) * 16 + (B[2] \div 16) + 1],
           Base64Alphabet[(B[2] % 16) * 4 + (B[3] \div 64) + 1],
           Base64Alphabet[(B[3] % 64) + 1]>>
         \o Base64Encode(SubSeq(B, 4, Len(B)))

\* not base64: "cXV", "c=V4", "cX=4", "!XV4"
MalformedData ==
    {<<99, 88, 86>>, <<99, 61, 86, 52>>, <<99, 88, 61, 52>>, <<33, 88, 86, 52>>}

EndpointAnswers ==
    {NetErr}
    \cup {HttpAnswer(s, j, <<>>, d) :
            s \in {199, 200, 204, 299, 300, 403}, j \in BOOLEAN,
            d \in {Base64Encode(B) : B \in Payloads} \cup MalformedData}

\* one call of Client.AccessSecretVersion and the answer the endpoint gives it
CallAccessSecretVersion ==
    /\ call.kind = "none"
    /\ \E resp \in EndpointAnswers, token \in ImpersonatedTokens :
          LET c == NewClient(token, <<112, 114, 111, 106>>)
          IN  /\ call' = [kind |-> "AccessSecretVersion", client |-> c, resp |-> resp]
              /\ ret' = AccessSecretVersion(c, <<115>>, <<108, 97, 116, 101, 115, 116>>,
                                            resp)
    /\ UNCHANGED <<pc, runErr, exitCode, file, cfg, ctxDone, events, credVars,
                   resolveVars, childVars, cleanupVars>>

SpecSecret == Init /\ [][CallAccessSecretVersion]_vars

-----------------------------------------------------------------------------
(* Properties *)

\* the env array of the descriptor's only container, as written in the source
Declared == file.spec.containers[1].env

\* a source entry that is a literal: its value is not empty
IsLiteral(raw) == raw.value # <<>>

\* a source entry that carries a complete secret reference
HasCompleteRef(raw) == raw.refName # <<>> /\ raw.refKey # <<>>

\* a source entry for which an entry is due
Emits(raw) == IsLiteral(raw) \/ HasCompleteRef(raw)

\* number of automatic entries: K_SERVICE only for a named service
AutoCount == IF file.name # <<>> THEN 4 ELSE 3

\* where the entry of the k-th declaration belongs in the output
Position(k) == AutoCount + Cardinality({j \in 1..k : Emits(Declared[j])})

\* NAME of a NAME=VALUE entry: what precedes the first '='
KeyOf(entry) ==
    IF \A k \in 1..Len(entry) : entry[k] # 61 THEN entry
    ELSE LET k == CHOOSE j \in 1..Len(entry) :
                      entry[j] = 61 /\ \A h \in 1..(j - 1) : entry[h] # 61
         IN  SubSeq(entry, 1, k - 1)

\* VALUE of a NAME=VALUE entry: what follows the first '='
ValueOf(entry) == SubSeq(entry, Len(KeyOf(entry)) + 2, Len(entry))

\* what a process given the environment list env reads for name, the last
\* entry of a name winning: <<>> if unset, <<value>> otherwise
Lookup(env, name) ==
    LET at == {k \in 1..Len(env) : KeyOf(env[k]) = name}
    IN  IF at = {} THEN <<>>
        ELSE <<ValueOf(env[CHOOSE k \in at : \A h \in at : h <= k])>>

ResolveSucceeded == pc \in {"resolved", "child"}

ResolveFailedWith == pc = "exited" /\ runErr # Nil /\ runErr.op = "resolve environment"

ResolverConstructed == creds # <<>>

\* C1: in every run in which the resolver was constructed, the artifact file
\* has been deleted exactly once when the process has terminated, however the
\* run ended
C1_ArtifactDeletedOnEveryExit ==
    (pc = "exited" /\ ResolverConstructed)
        => (removed = 1 /\ creds[1].CredsFile \notin tmpFiles)

\* C2: the second of two Cleanup calls in a row on a constructed Resolver
\* returns no error, the first having deleted the artifact file
C2_SecondCleanupSucceeds ==
    /\ (pc = "constructed" /\ cleanupCalls >= 1) => creds[1].CredsFile \notin tmpFiles
    /\ (pc = "constructed" /\ cleanupCalls = 1) => (removed = 1 /\ cleanupErr = Nil)
    /\ (pc = "constructed" /\ cleanupCalls = 2) => (removed = 1 /\ cleanupErr = Nil)

\* K_SERVICE=<name> iff named, K_REVISION=local, GOOGLE_CLOUD_PROJECT=<project>,
\* GOOGLE_APPLICATION_CREDENTIALS=<path>
ExpectedAutomatic ==
    (IF file.name # <<>>
     THEN <<<<75, 95, 83, 69, 82, 86, 73, 67, 69, 61>> \o file.name>>
     ELSE <<>>)
    \o <<<<75, 95, 82, 69, 86, 73, 83, 73, 79, 78, 61, 108, 111, 99, 97, 108>>,
         <<71, 79, 79, 71, 76, 69, 95, 67, 76, 79, 85, 68, 95, 80, 82, 79, 74, 69, 67,
           84, 61>> \o cfg[1].ProjectID,
         <<71, 79, 79, 71, 76, 69, 95, 65, 80, 80, 76, 73, 67, 65, 84, 73, 79, 78, 95,
           67, 82, 69, 68, 69, 78, 84, 73, 65, 76, 83, 61>> \o creds[1].CredsFile>>

\* C3: a successful Resolve returns the automatic entries first, K_SERVICE
\* (iff the service is named), K_REVISION=local, GOOGLE_CLOUD_PROJECT,
\* GOOGLE_APPLICATION_CREDENTIALS with the path of the artifact on disk, in this
\* order, and the entry of every declaration after them
C3_AutomaticEntriesFirst ==
    ResolveSucceeded =>
        /\ Len(envVars) >= AutoCount
        /\ SubSeq(envVars, 1, AutoCount) = ExpectedAutomatic
        /\ creds[1].CredsFile \in tmpFiles
        /\ \A k \in 1..Len(Declared) :
              Emits(Declared[k]) =>
                 /\ Position(k) > AutoCount
                 /\ Position(k) <= Len(envVars)
                 /\ KeyOf(envVars[Position(k)]) = Declared[k].name

C3_Witness ==
    /\ pc = "resolved"
    /\ file.name # <<>>
    /\ Len(Declared) >= 2
    /\ \A k \in 1..Len(Declared) : Emits(Declared[k])

\* C4: a declaration whose source entry has a non-empty value yields exactly
\* NAME=value at its place in source order, and no secret request is ever
\* issued for it, a complete secret reference in the source entry notwithstanding
C4_LiteralWins ==
    /\ cfg # <<>> =>
          \A e \in 1..Len(events) :
             events[e].kind = "secret" => ~IsLiteral(Declared[events[e].decl])
    /\ ResolveSucceeded =>
          \A k \in 1..Len(Declared) :
             IsLiteral(Declared[k]) =>
                /\ Position(k) <= Len(envVars)
                /\ envVars[Position(k)] = Declared[k].name \o <<61>> \o Declared[k].value

C4_Witness ==
    /\ pc = "resolved"
    /\ Len(Declared) >= 2
    /\ ~IsLiteral(Declared[1]) /\ HasCompleteRef(Declared[1])
    /\ IsLiteral(Declared[2]) /\ HasCompleteRef(Declared[2])

\* C5: when the secret fetch of a declaration fails, Resolve returns no
\* entries and an error naming the secret of that declaration, nothing is
\* printed or handed to a child, and no request for a later declaration is issued
C5_FetchFailureAborts ==
    ResolveFailedWith =>
        /\ envVars = <<>>
        /\ stdout = <<>>
        /\ childEnv = <<>>
        /\ runErr.cause.op = "access secret"
        /\ HasCompleteRef(Declared[idx])
        /\ runErr.cause.arg = Declared[idx].refName
        /\ \A e \in 1..Len(events) : events[e].kind = "secret" => events[e].decl <= idx

C5_Witness ==
    /\ ResolveFailedWith
    /\ ~ctxDone
    /\ idx < Len(Declared)
    /\ HasCompleteRef(Declared[idx + 1]) /\ ~IsLiteral(Declared[idx + 1])
    /\ events[Len(events)].kind = "secret"
    /\ events[Len(events)].decl = idx
    /\ Len(result) >= 3

\* C6: every secret request carries the token the impersonation endpoint
\* answered with, which is not the caller's own; the caller's own token is
\* carried by the impersonation request and by no other request
C6_SecretRequestsImpersonated ==
    \A e \in 1..Len(events) :
        /\ events[e].kind = "secret" =>
              /\ issued # <<>>
              /\ events[e].bearer = issued[1]
              /\ events[e].bearer # callerToken
        /\ events[e].kind = "impersonate" => events[e].bearer = callerToken
        /\ (events[e].kind # "impersonate" /\ callerToken # <<>>)
              => events[e].bearer # callerToken

C6_Witness ==
    /\ pc = "resolved"
    /\ \E e \in 1..Len(events) : events[e].kind = "secret"
    /\ \E e \in 1..Len(events) : events[e].kind = "impersonate"

\* the names a child may read: FOO, K_REVISION, K_SERVICE,
\* GOOGLE_CLOUD_PROJECT, GOOGLE_APPLICATION_CREDENTIALS, HOME
VariableNames ==
    {<<70, 79, 79>>, <<75, 95, 82, 69, 86, 73, 83, 73, 79, 78>>,
     <<75, 95, 83, 69, 82, 86, 73, 67, 69>>,
     <<71, 79, 79, 71, 76, 69, 95, 67, 76, 79, 85, 68, 95, 80, 82, 79, 74, 69, 67, 84>>,
     <<71, 79, 79, 71, 76, 69, 95, 65, 80, 80, 76, 73, 67, 65, 84, 73, 79, 78, 95, 67,
       82, 69, 68, 69, 78, 84, 73, 65, 76, 83>>,
     <<72, 79, 77, 69>>}

\* the value the configuration gives name: that of the last declaration of
\* that name for which an entry is due, its literal or else its secret
DeclaredValue(name) ==
    LET at == {k \in 1..Len(Declared) : Emits(Declared[k]) /\ Declared[k].name = name}
    IN  IF at = {} THEN <<>>
        ELSE LET k == CHOOSE j \in at : \A h \in at : h <= j
             IN  IF IsLiteral(Declared[k]) THEN <<Declared[k].value>>
                 ELSE <<(CHOOSE f \in {fetched[i] : i \in 1..Len(fetched)} :
                            f.decl = k).val>>

\* the value the automatic variables give name
AutomaticValue(name) ==
    IF name = <<75, 95, 83, 69, 82, 86, 73, 67, 69>>
    THEN (IF file.name # <<>> THEN <<file.name>> ELSE <<>>)
    ELSE IF name = <<75, 95, 82, 69, 86, 73, 83, 73, 79, 78>>
    THEN <<<<108, 111, 99, 97, 108>>>>
    ELSE IF name = <<71, 79, 79, 71, 76, 69, 95, 67, 76, 79, 85, 68, 95, 80, 82, 79, 74,
                      69, 67, 84>>
    THEN <<cfg[1].ProjectID>>
    ELSE IF name = <<71, 79, 79, 71, 76, 69, 95, 65, 80, 80, 76, 73, 67, 65, 84, 73, 79,
                      78, 95, 67, 82, 69, 68, 69, 78, 84, 73, 65, 76, 83>>
    THEN <<creds[1].CredsFile>>
    ELSE <<>>

\* C7: the child reads, for every name, the value of the invoking shell if
\* the shell sets the name, else the value of the configuration if it declares
\* the name, else the automatic value
C7_ShellOverConfigOverAutomatic ==
    pc = "child" =>
        \A name \in VariableNames :
            Lookup(childEnv, name) =
                IF Lookup(environ, name) # <<>> THEN Lookup(environ, name)
                ELSE IF DeclaredValue(name) # <<>> THEN DeclaredValue(name)
                ELSE AutomaticValue(name)

C7_Witness ==
    /\ pc = "child"
    /\ Lookup(environ, <<70, 79, 79>>) # <<>>
    /\ DeclaredValue(<<70, 79, 79>>) # <<>>
    /\ Lookup(environ, <<70, 79, 79>>) # DeclaredValue(<<70, 79, 79>>)
    /\ Lookup(environ, <<75, 95, 82, 69, 86, 73, 83, 73, 79, 78>>) = <<>>
    /\ DeclaredValue(<<75, 95, 82, 69, 86, 73, 83, 73, 79, 78>>) # <<>>

CountByte(s, b) == Cardinality({k \in 1..Len(s) : s[k] = b})

\* the first label of the domain of an identity with one '@': what lies
\* between the '@' and the first '.' after it, or the end if there is none
FirstLabelOfDomain(s) ==
    LET at == CHOOSE k \in 1..Len(s) : s[k] = 64
        dots == {k \in (at + 1)..Len(s) : s[k] = 46}
        stop == IF dots = {} THEN Len(s) + 1
                ELSE CHOOSE k \in dots : \A h \in dots : k <= h
    IN  SubSeq(s, at + 1, stop - 1)

\* C8: a descriptor that parses has an identity with exactly one '@', and its
\* projectId is the non-empty first label of the identity's domain; a
\* descriptor whose identity has no '@' or several fails with an error
C8_ProjectIdIsFirstLabel ==
    pc # "start" =>
        /\ cfg # <<>> =>
              /\ CountByte(file.spec.serviceAccountName, 64) = 1
              /\ cfg[1].ProjectID = FirstLabelOfDomain(file.spec.serviceAccountName)
              /\ cfg[1].ProjectID # <<>>
              /\ cfg[1].ServiceAccount = file.spec.serviceAccountName
        /\ CountByte(file.spec.serviceAccountName, 64) # 1 =>
              /\ cfg = <<>>
              /\ pc = "exited"
              /\ runErr # Nil /\ runErr.op = "parse config"
              /\ exitCode = <<1>>

C8_Witness ==
    /\ cfg # <<>>
    /\ Len(cfg[1].ProjectID) >= 2
    /\ CountByte(file.spec.serviceAccountName, 46) >= 1

\* C9: a Service or a Job descriptor with no container or with several makes
\* the run fail with the container-count error, with no credential lookup, no
\* request and no artifact file ever
C9_ContainerCountFailsFirst ==
    (pc # "start" /\ file.readable /\ file.kind \in {"Service", "Job"}
        /\ Len(file.spec.containers) # 1)
        => /\ pc = "exited"
           /\ exitCode = <<1>>
           /\ runErr # Nil /\ runErr.op = "parse config"
           /\ runErr.cause.op = "expected exactly 1 container, got"
           /\ runErr.cause.arg = <<Len(file.spec.containers)>>
           /\ cfg = <<>>
           /\ events = <<>>
           /\ tmpFiles = {}
           /\ creds = <<>>

C9_Witness ==
    /\ pc = "exited"
    /\ file.kind = "Job"
    /\ Len(file.spec.containers) = 2
    /\ file.spec.serviceAccountName = GoodAccount

\* C10: AccessSecretVersion returns exactly B, and no error, when the
\* endpoint answers with a status in 200..299 and a payload that is the base64
\* encoding of a non-empty B; it returns an error and no value when the status
\* is outside 200..299 or the payload is empty
C10_SecretRoundTrip ==
    call.kind = "AccessSecretVersion" =>
        /\ \A B \in Payloads :
              (/\ B # <<>>
               /\ ~call.resp.neterr /\ call.resp.jsonOk
               /\ call.resp.status >= 200 /\ call.resp.status <= 299
               /\ call.resp.data = Base64Encode(B))
              => ret = [val |-> B, err |-> Nil]
        /\ (call.resp.status < 200 \/ call.resp.status > 299 \/ call.resp.data = <<>>)
              => (ret.err # Nil /\ ret.val = <<>>)
        /\ ret.err = Nil => ret.val # <<>>

C10_Witness ==
    /\ call.kind = "AccessSecretVersion"
    /\ call.resp.status = 204
    /\ ret.err = Nil
    /\ Len(ret.val) = 2
    /\ ret.val[1] = 255

\* the value due to the k-th declaration: its literal or else the secret fetched for it
DeclaredValueAt(k) ==
    IF IsLiteral(Declared[k]) THEN Declared[k].value
    ELSE (CHOOSE f \in {fetched[i] : i \in 1..Len(fetched)} : f.decl = k).val

\* a source entry that is secret-backed: no literal, a complete reference
IsSecretBacked(raw) == ~IsLiteral(raw) /\ HasCompleteRef(raw)

\* the secret requests among the events, in the order issued
SecretEvents == SelectSeq(events, LAMBDA e : e.kind = "secret")

\* C11: a declaration with neither a non-empty value nor a complete secret
\* reference yields no entry and no error and no secret request; the entries
\* of the other declarations are still there, in source order
C11_IncompleteDeclarationSkipped ==
    /\ cfg # <<>> =>
          \A e \in 1..Len(events) :
             events[e].kind = "secret" => Emits(Declared[events[e].decl])
    /\ ResolveFailedWith => Emits(Declared[idx])
    /\ ResolveSucceeded =>
          /\ Len(envVars) = AutoCount
                            + Cardinality({k \in 1..Len(Declared) : Emits(Declared[k])})
          /\ \A k \in 1..Len(Declared) :
                Emits(Declared[k]) =>
                   /\ KeyOf(envVars[Position(k)]) = Declared[k].name
                   /\ ValueOf(envVars[Position(k)]) = DeclaredValueAt(k)

C11_Witness ==
    /\ pc = "resolved"
    /\ Len(Declared) >= 2
    /\ ~IsLiteral(Declared[1]) /\ Declared[1].refName # <<>> /\ Declared[1].refKey = <<>>
    /\ Emits(Declared[2])
    /\ Len(envVars) = AutoCount + 1

\* C12: in a successful Resolve the secret requests are exactly the
\* secret-backed declarations in source order, one request each with that
\* declaration's project, name and version, two declarations of one secret
\* getting a request each; and at any time at most one request is unanswered,
\* the one Resolve is waiting for
C12_OneRequestPerSecretInOrder ==
    /\ ResolveSucceeded =>
          LET backed == {k \in 1..Len(Declared) : IsSecretBacked(Declared[k])}
          IN  /\ Len(SecretEvents) = Cardinality(backed)
              /\ Len(fetched) = Cardinality(backed)
              /\ \A e \in 1..Len(SecretEvents) :
                    /\ SecretEvents[e].decl \in backed
                    /\ Cardinality({k \in backed : k <= SecretEvents[e].decl}) = e
                    /\ SecretEvents[e].path =
                          <<cfg[1].ProjectID, Declared[SecretEvents[e].decl].refName,
                            Declared[SecretEvents[e].decl].refKey>>
                    /\ fetched[e].decl = SecretEvents[e].decl
    /\ pc = "secretWait" => Len(SecretEvents) = Len(fetched) + 1
    /\ pc \in {"resolve", "resolved", "child"} => Len(SecretEvents) = Len(fetched)

C12_Witness ==
    /\ pc = "resolved"
    /\ Len(Declared) >= 2
    /\ IsSecretBacked(Declared[1]) /\ IsSecretBacked(Declared[2])
    /\ Declared[1].refName = Declared[2].refName
    /\ Declared[1].refKey = Declared[2].refKey
    /\ Len(SecretEvents) = 2
    /\ fetched[1].val # fetched[2].val

\* a secret request of Resolve is unanswered and the context is cancelled:
\* the signal came while the fetch was in flight, as Resolve sends no request
\* once the context is cancelled
CancelledInFlight == pc = "secretWait" /\ ctxDone

\* C13: a signal that arrives while a secret fetch of Resolve is in flight
\* cancels the context and leaves the fetch in flight; the next step of the
\* run is then the failure of that fetch: Resolve returns an error and no
\* entries, nothing is printed or executed, Cleanup runs once and deletes the
\* artifact file, and the process exits with status 1
C13_CancelledFetchStillCleansUp ==
    [][/\ (pc = "secretWait" /\ ~ctxDone /\ pc' = "secretWait") => ctxDone'
       /\ CancelledInFlight =>
             /\ pc' = "exited"
             /\ envVars' = <<>>
             /\ stdout' = <<>> /\ childEnv' = <<>>
             /\ runErr'.op = "resolve environment"
             /\ runErr'.cause.op = "access secret"
             /\ cleanupCalls' = 1 /\ cleanupErr' = Nil
             /\ removed' = 1
             /\ creds[1].CredsFile \in tmpFiles
             /\ creds[1].CredsFile \notin tmpFiles'
             /\ exitCode' = <<1>>]_vars

C13_Witness ==
    /\ pc = "exited"
    /\ ctxDone
    /\ ResolveFailedWith
    /\ Len(events) > 0
    /\ events[Len(events)].kind = "secret"
    /\ events[Len(events)].decl = idx
    /\ removed = 1
    /\ tmpFiles = {}

\* NewResolver returned the error err of GetImpersonatedCredentials
NewResolverFailedWith(op) ==
    /\ pc = "exited"
    /\ runErr # Nil /\ runErr.op = "create env resolver"
    /\ runErr.cause.cause.op = op

\* the events that go over the network: the token of the standing
\* credential, the impersonation request, the secret requests
NetworkEvents == SelectSeq(events, LAMBDA e : e.kind \in {"token", "impersonate", "secret"})

\* C14: the artifact file is written only after the standing credential has
\* been read and the impersonation endpoint has answered with a token; when
\* NewResolver fails because the standing credential is missing or the
\* impersonation fails, no artifact file exists and no Resolver does; and a
\* missing standing credential fails before anything goes over the network
C14_ArtifactWrittenLast ==
    /\ (pc # "exited" /\ ~ResolverConstructed) => tmpFiles = {}
    /\ ResolverConstructed =>
          /\ issued # <<>>
          /\ creds[1].AccessToken = issued[1]
          /\ \E e \in 1..Len(events) : events[e].kind = "adc"
          /\ \E e \in 1..Len(events) : events[e].kind = "impersonate"
    /\ (NewResolverFailedWith("no application default credentials found")
        \/ NewResolverFailedWith("fetch impersonated access token")) =>
          /\ tmpFiles = {}
          /\ creds = <<>>
          /\ removed = 0 /\ cleanupCalls = 0
          /\ exitCode = <<1>>
    /\ NewResolverFailedWith("no application default credentials found") =>
          NetworkEvents = <<>>

C14_Witness ==
    /\ NewResolverFailedWith("fetch impersonated access token")
    /\ runErr.cause.cause.cause.op = "failed to generate access token"
    /\ Len(NetworkEvents) = 2
    /\ tmpFiles = {}

=============================================================================
